---- MODULE Spec2Model ----
(***************************************************************************)
(* Model of the CLI argument parsing helpers of src/resources/cli_args.c.  *)
(*                                                                         *)
(* A C string is a sequence of one-character strings; a pointer to a C     *)
(* string is a record [isNull, str].  Unsigned integers wider than TLC's   *)
(* own integers are sequences of 16-bit limbs, least significant first,    *)
(* with no most significant zero limb (zero is the empty sequence).        *)
(* The C library is modelled for the LP64 data model: long and unsigned    *)
(* long are 64 bits, int and unsigned int are 32 bits.                     *)
(***************************************************************************)
EXTENDS Integers, Sequences, FiniteSets, TLC

(***************************************************************************)
(* Bounds of the model.                                                    *)
(***************************************************************************)
\* Longest generated argument over the alphabet Chars.
MaxLen == 2
\* Most dot-separated fields of a generated IPv4 argument.
MaxFields == 5
\* Most tokens a thread counts when strtok reads a buffer that is out of scope.
MaxCount == 5

(***************************************************************************)
(* Multi-limb naturals.                                                    *)
(***************************************************************************)
LimbBase == 2 ^ 16
LimbMax == LimbBase - 1

RECURSIVE Norm(_)
Norm(n) ==
    IF n = <<>> THEN <<>>
    ELSE IF n[Len(n)] = 0 THEN Norm(SubSeq(n, 1, Len(n) - 1))
    ELSE n

\* n * m + c, for small m and c.
RECURSIVE MulAdd(_, _, _)
MulAdd(n, m, c) ==
    IF n = <<>> THEN (IF c = 0 THEN <<>> ELSE <<c>>)
    ELSE LET t == n[1] * m + c
         IN  <<t % LimbBase>> \o MulAdd(Tail(n), m, t \div LimbBase)

RECURSIVE LessFrom(_, _, _)
LessFrom(a, b, i) ==
    IF i = 0 THEN FALSE
    ELSE IF a[i] # b[i] THEN a[i] < b[i]
    ELSE LessFrom(a, b, i - 1)

BigLess(a, b) ==
    IF Len(a) # Len(b) THEN Len(a) < Len(b) ELSE LessFrom(a, b, Len(a))

BigLeq(a, b) == ~BigLess(b, a)

\* The limbs of a natural TLC can hold itself.
Big(k) == Norm(<<k % LimbBase, k \div LimbBase>>)

\* 2^(16 * limbs) - 1.
AllOnes(limbs) == [i \in 1..limbs |-> LimbMax]

\* n modulo 2^(16 * limbs).
Truncate(n, limbs) == Norm(SubSeq(n, 1, IF Len(n) < limbs THEN Len(n) ELSE limbs))

\* 2^(16 * limbs) - n modulo 2^(16 * limbs): unsigned negation.
Negate(n, limbs) ==
    LET padded == [i \in 1..limbs |-> IF i <= Len(n) THEN n[i] ELSE 0]
        flipped == [i \in 1..limbs |-> LimbMax - padded[i]]
    IN  Truncate(MulAdd(flipped, 1, 1), limbs)

\* Quotient and remainder of n by a small d, most significant limb first.
RECURSIVE DivFrom(_, _, _, _)
DivFrom(n, d, i, r) ==
    IF i = 0 THEN [q |-> <<>>, r |-> r]
    ELSE LET t == r * LimbBase + n[i]
             rest == DivFrom(n, d, i - 1, t % d)
         IN  [q |-> rest.q \o <<t \div d>>, r |-> rest.r]

DivSmall(n, d) ==
    LET res == DivFrom(n, d, Len(n), 0) IN [q |-> Norm(res.q), r |-> res.r]

(***************************************************************************)
(* Characters.                                                             *)
(***************************************************************************)
DecDigits == <<"0", "1", "2", "3", "4", "5", "6", "7", "8", "9">>
LowerHex == <<"a", "b", "c", "d", "e", "f">>
UpperHex == <<"A", "B", "C", "D", "E", "F">>

InSeq(c, s) == \E i \in 1..Len(s) : s[i] = c
IndexIn(c, s) == CHOOSE i \in 1..Len(s) : s[i] = c

isdigit(c) == InSeq(c, DecDigits)
isxdigit(c) == InSeq(c, DecDigits) \/ InSeq(c, LowerHex) \/ InSeq(c, UpperHex)
isspace(c) == c \in {" ", "\t", "\n"}

\* The value of a digit of base 10 or 16.
DigitValue(c) ==
    IF InSeq(c, DecDigits) THEN IndexIn(c, DecDigits) - 1
    ELSE IF InSeq(c, LowerHex) THEN IndexIn(c, LowerHex) + 9
    ELSE IndexIn(c, UpperHex) + 9

IsDigitOf(c, base) == IF base = 10 THEN isdigit(c) ELSE isxdigit(c)

\* printf("%lu"): the decimal rendering of a natural.
RECURSIVE FormatDec(_)
FormatDec(n) ==
    LET d == DivSmall(n, 10)
    IN  IF d.q = <<>> THEN <<DecDigits[d.r + 1]>>
        ELSE FormatDec(d.q) \o <<DecDigits[d.r + 1]>>

(***************************************************************************)
(* Pointers to C strings.                                                  *)
(***************************************************************************)
NULL == [isNull |-> TRUE, str |-> <<>>]
Ptr(s) == [isNull |-> FALSE, str |-> s]

\* (str == NULL) || (*str == '\0')
NullOrEmpty(p) == p.isNull \/ p.str = <<>>

(***************************************************************************)
(* The C library's integer conversions (strtoul, strtoull, strtol).        *)
(***************************************************************************)
\* Limbs of unsigned long, unsigned long long and long (LP64: 64 bits).
LongLimbs == 4
\* Limbs of uint32_t, int and unsigned int.
IntLimbs == 2

ULONG_MAX == AllOnes(LongLimbs)
ULLONG_MAX == AllOnes(LongLimbs)
UINT32_MAX == AllOnes(IntLimbs)
UINT64_MAX == AllOnes(LongLimbs)
\* 2^63 - 1, and the magnitude of LONG_MIN, 2^63.
LONG_MAX_MAG == [i \in 1..LongLimbs |-> IF i = LongLimbs THEN 2 ^ 15 - 1 ELSE LimbMax]
LONG_MIN_MAG == [i \in 1..LongLimbs |-> IF i = LongLimbs THEN 2 ^ 15 ELSE 0]

\* A signed integer: sign and magnitude, zero never negative.
SInt(neg, mag) == [neg |-> neg /\ mag # <<>>, mag |-> mag]

SLess(a, b) ==
    IF a.neg # b.neg THEN a.neg
    ELSE IF a.neg THEN BigLess(b.mag, a.mag)
    ELSE BigLess(a.mag, b.mag)

RECURSIVE SkipSpace(_, _)
SkipSpace(s, i) ==
    IF i <= Len(s) /\ isspace(s[i]) THEN SkipSpace(s, i + 1) ELSE i

RECURSIVE DigitsEnd(_, _, _)
DigitsEnd(s, i, base) ==
    IF i <= Len(s) /\ IsDigitOf(s[i], base) THEN DigitsEnd(s, i + 1, base) ELSE i

\* The value of the digits s[i], ..., s[j - 1] in the base, after acc.
RECURSIVE Horner(_, _, _, _, _)
Horner(s, i, j, base, acc) ==
    IF i >= j THEN acc
    ELSE Horner(s, i + 1, j, base, MulAdd(acc, base, DigitValue(s[i])))

\* The subject sequence of strtol and strtoul: white space, an optional sign,
\* an optional 0x in base 16, then the longest run of digits.  end is the
\* index of the first character not consumed (Len(s) + 1: the terminator);
\* with no digits nothing is consumed.
ScanInteger(s, base) ==
    LET i0 == SkipSpace(s, 1)
        hasSign == i0 <= Len(s) /\ s[i0] \in {"+", "-"}
        i1 == IF hasSign THEN i0 + 1 ELSE i0
        hasPrefix == /\ base = 16
                     /\ i1 + 2 <= Len(s)
                     /\ s[i1] = "0"
                     /\ s[i1 + 1] \in {"x", "X"}
                     /\ isxdigit(s[i1 + 2])
        i2 == IF hasPrefix THEN i1 + 2 ELSE i1
        j == DigitsEnd(s, i2, base)
    IN  IF j = i2
        THEN [neg |-> FALSE, mag |-> <<>>, end |-> 1]
        ELSE [neg |-> hasSign /\ s[i0] = "-",
              mag |-> Horner(s, i2, j, base, <<>>),
              end |-> j]

\* An unsigned conversion to limbs * 16 bits: a value out of range is
\* ULONG_MAX (and ERANGE, which no caller reads), a negated one wraps.
StrToUnsigned(s, base, limbs) ==
    LET r == ScanInteger(s, base)
    IN  [val |-> IF BigLess(AllOnes(limbs), r.mag) THEN AllOnes(limbs)
                 ELSE IF r.neg THEN Negate(r.mag, limbs)
                 ELSE r.mag,
         end |-> r.end]

strtoul(s, base) == StrToUnsigned(s, base, LongLimbs)
strtoull(s, base) == StrToUnsigned(s, base, LongLimbs)

\* A value out of range is LONG_MIN or LONG_MAX.
strtol(s, base) ==
    LET r == ScanInteger(s, base)
    IN  [val |-> IF r.neg /\ BigLess(LONG_MIN_MAG, r.mag) THEN SInt(TRUE, LONG_MIN_MAG)
                 ELSE IF ~r.neg /\ BigLess(LONG_MAX_MAG, r.mag) THEN SInt(FALSE, LONG_MAX_MAG)
                 ELSE SInt(r.neg, r.mag),
         end |-> r.end]

\* (CLIPAR_INT)val: the low 32 bits of a long, read as two's complement.
CastInt(v) ==
    LET u == IF v.neg THEN Negate(v.mag, IntLimbs) ELSE Truncate(v.mag, IntLimbs)
    IN  IF Len(u) = IntLimbs /\ u[IntLimbs] >= 2 ^ 15
        THEN SInt(TRUE, Negate(u, IntLimbs))
        ELSE SInt(FALSE, u)

(***************************************************************************)
(* Character-class predicates of cli_args.c.                               *)
(***************************************************************************)
is_digits(p) ==
    IF NullOrEmpty(p) THEN FALSE
    ELSE \A i \in 1..Len(p.str) : isdigit(p.str[i])

is_valid_int(p) ==
    IF NullOrEmpty(p) THEN FALSE
    ELSE IF p.str[1] \in {"-", "+"} THEN is_digits(Ptr(Tail(p.str)))
    ELSE is_digits(p)

is_hex_digits(p) ==
    IF NullOrEmpty(p) THEN FALSE
    ELSE \A i \in 1..Len(p.str) :
            \/ InSeq(p.str[i], DecDigits)
            \/ InSeq(p.str[i], LowerHex)
            \/ InSeq(p.str[i], UpperHex)

UpperLetters ==
    <<"A", "B", "C", "D", "E", "F", "G", "H", "I", "J", "K", "L", "M",
      "N", "O", "P", "Q", "R", "S", "T", "U", "V", "W", "X", "Y", "Z">>
LowerLetters ==
    <<"a", "b", "c", "d", "e", "f", "g", "h", "i", "j", "k", "l", "m",
      "n", "o", "p", "q", "r", "s", "t", "u", "v", "w", "x", "y", "z">>

\* c + ('a' - 'A') for c in 'A'..'Z', c otherwise.
FoldCase(c) ==
    IF InSeq(c, UpperLetters) THEN LowerLetters[IndexIn(c, UpperLetters)] ELSE c

\* iequals with the final test of the second string left out: a prefix of
\* s2 compares equal.
RECURSIVE iequals_prefix(_, _)
iequals_prefix(s1, s2) ==
    IF s1 # <<>> /\ s2 # <<>>
    THEN IF FoldCase(s1[1]) # FoldCase(s2[1]) THEN FALSE
         ELSE iequals_prefix(Tail(s1), Tail(s2))
    ELSE s1 = <<>>

RECURSIVE iequals(_, _)
iequals(s1, s2) ==
    IF s1 # <<>> /\ s2 # <<>>
    THEN IF FoldCase(s1[1]) # FoldCase(s2[1]) THEN FALSE
         ELSE iequals(Tail(s1), Tail(s2))
    ELSE s1 = <<>> /\ s2 = <<>>

(***************************************************************************)
(* The parsers.  Each takes the argument, its other inputs, the content of  *)
(* the output slot and whether the out pointer is non-NULL, and gives the   *)
(* returned value and the content of the slot after the call.               *)
(***************************************************************************)
Returns(ret, out) == [ret |-> ret, out |-> out]

\* parse_uint32_in_range storing the value before the range check.
parse_uint32_stores_early(arg, min, max, out, hasOut) ==
    IF NullOrEmpty(arg) THEN Returns(FALSE, out)
    ELSE IF ~is_digits(arg) THEN Returns(FALSE, out)
    ELSE LET r == strtoul(arg.str, 10)
             stored == IF hasOut THEN Truncate(r.val, IntLimbs) ELSE out
         IN  IF r.end <= Len(arg.str) THEN Returns(FALSE, out)
             ELSE IF BigLess(r.val, min) \/ BigLess(max, r.val) THEN Returns(FALSE, stored)
             ELSE Returns(TRUE, stored)

\* parse_uint32_in_range with val >= max for val > max.
parse_uint32_exclusive_max(arg, min, max, out, hasOut) ==
    IF NullOrEmpty(arg) THEN Returns(FALSE, out)
    ELSE IF ~is_digits(arg) THEN Returns(FALSE, out)
    ELSE LET r == strtoul(arg.str, 10)
         IN  IF r.end <= Len(arg.str) THEN Returns(FALSE, out)
             ELSE IF BigLess(r.val, min) \/ BigLeq(max, r.val) THEN Returns(FALSE, out)
             ELSE Returns(TRUE, IF hasOut THEN Truncate(r.val, IntLimbs) ELSE out)

parse_uint32_in_range(arg, min, max, out, hasOut) ==
    IF NullOrEmpty(arg) THEN Returns(FALSE, out)
    ELSE IF ~is_digits(arg) THEN Returns(FALSE, out)
    ELSE LET r == strtoul(arg.str, 10)
         IN  IF r.end <= Len(arg.str) THEN Returns(FALSE, out)
             ELSE IF BigLess(r.val, min) \/ BigLess(max, r.val) THEN Returns(FALSE, out)
             ELSE Returns(TRUE, IF hasOut THEN Truncate(r.val, IntLimbs) ELSE out)

parse_uint64_in_range(arg, min, max, out, hasOut) ==
    IF NullOrEmpty(arg) THEN Returns(FALSE, out)
    ELSE IF ~is_digits(arg) THEN Returns(FALSE, out)
    ELSE LET r == strtoull(arg.str, 10)
         IN  IF r.end <= Len(arg.str) THEN Returns(FALSE, out)
             ELSE IF BigLess(r.val, min) \/ BigLess(max, r.val) THEN Returns(FALSE, out)
             ELSE Returns(TRUE, IF hasOut THEN Truncate(r.val, LongLimbs) ELSE out)

parse_int_in_range(arg, min, max, out, hasOut) ==
    IF NullOrEmpty(arg) THEN Returns(FALSE, out)
    ELSE IF ~is_valid_int(arg) THEN Returns(FALSE, out)
    ELSE LET r == strtol(arg.str, 10)
         IN  IF r.end <= Len(arg.str) THEN Returns(FALSE, out)
             ELSE IF SLess(r.val, min) \/ SLess(max, r.val) THEN Returns(FALSE, out)
             ELSE Returns(TRUE, IF hasOut THEN CastInt(r.val) ELSE out)

\* The first i with options[i] equal to arg, as the loop finds it (0-based).
RECURSIVE OptionLoop(_, _, _, _)
OptionLoop(arg, options, num_options, i) ==
    IF i >= num_options THEN [found |-> FALSE, index |-> 0]
    ELSE IF arg.str = options[i + 1] THEN [found |-> TRUE, index |-> i]
    ELSE OptionLoop(arg, options, num_options, i + 1)

parse_string_option(arg, options, num_options, out, hasOut) ==
    IF arg.isNull THEN Returns(FALSE, out)
    ELSE LET r == OptionLoop(arg, options, num_options, 0)
         IN  IF r.found THEN Returns(TRUE, IF hasOut THEN r.index ELSE out)
             ELSE Returns(FALSE, out)

parse_bool(arg, out, hasOut) ==
    IF arg.isNull THEN Returns(FALSE, out)
    ELSE IF \/ iequals(arg.str, <<"t", "r", "u", "e">>)
            \/ iequals(arg.str, <<"1">>)
            \/ iequals(arg.str, <<"y", "e", "s">>)
         THEN Returns(TRUE, IF hasOut THEN TRUE ELSE out)
    ELSE IF \/ iequals(arg.str, <<"f", "a", "l", "s", "e">>)
            \/ iequals(arg.str, <<"0">>)
            \/ iequals(arg.str, <<"n", "o">>)
         THEN Returns(TRUE, IF hasOut THEN FALSE ELSE out)
    ELSE Returns(FALSE, out)

parse_hex_in_range(arg, min, max, out, hasOut) ==
    IF NullOrEmpty(arg) THEN Returns(FALSE, out)
    ELSE LET s == arg.str
             digits == IF /\ s[1] = "0"
                          /\ Len(s) >= 2
                          /\ s[2] \in {"x", "X"}
                       THEN SubSeq(s, 3, Len(s))
                       ELSE s
         IN  IF ~is_hex_digits(Ptr(digits)) THEN Returns(FALSE, out)
             ELSE LET r == strtoul(digits, 16)
                  IN  IF r.end <= Len(digits) THEN Returns(FALSE, out)
                      ELSE IF BigLess(r.val, min) \/ BigLess(max, r.val)
                           THEN Returns(FALSE, out)
                      ELSE Returns(TRUE, IF hasOut THEN r.val ELSE out)

(***************************************************************************)
(* The C library's strtof.  A float is [cls, neg, num, den]: not a number, *)
(* an infinity, or the finite value (-1)^neg * num / den in lowest terms.  *)
(* Literals of at most six significant digits are distinct floats, so the  *)
(* exact value stands for the rounded one in every comparison made here.   *)
(***************************************************************************)
RECURSIVE GCD(_, _)
GCD(a, b) == IF b = 0 THEN a ELSE GCD(b, a % b)

Finite(neg, num, den) ==
    LET g == GCD(num, den)
    IN  [cls |-> "fin", neg |-> neg, num |-> num \div g, den |-> den \div g]
Infinity(neg) == [cls |-> "inf", neg |-> neg, num |-> 0, den |-> 1]
NaN == [cls |-> "nan", neg |-> FALSE, num |-> 0, den |-> 1]

Signed(f) == IF f.neg THEN 0 - f.num ELSE f.num

\* a < b on floats: false whenever an operand is not a number.
FLess(a, b) ==
    IF a.cls = "nan" \/ b.cls = "nan" THEN FALSE
    ELSE IF a.cls = "inf" THEN a.neg /\ ~(b.cls = "inf" /\ b.neg)
    ELSE IF b.cls = "inf" THEN ~b.neg
    ELSE Signed(a) * b.den < Signed(b) * a.den

\* Whether s holds the word w at index i, in either case.
MatchWord(s, i, w) ==
    /\ i + Len(w) - 1 <= Len(s)
    /\ \A k \in 1..Len(w) : FoldCase(s[i + k - 1]) = w[k]

IsNChar(c) == isdigit(c) \/ InSeq(c, UpperLetters) \/ InSeq(c, LowerLetters) \/ c = "_"

RECURSIVE NCharsEnd(_, _)
NCharsEnd(s, i) ==
    IF i <= Len(s) /\ IsNChar(s[i]) THEN NCharsEnd(s, i + 1) ELSE i

\* The digits s[i], ..., s[j - 1] of the base, a dot among them skipped.
RECURSIVE Mantissa(_, _, _, _, _)
Mantissa(s, i, j, base, acc) ==
    IF i >= j THEN acc
    ELSE IF s[i] = "." THEN Mantissa(s, i + 1, j, base, acc)
    ELSE Mantissa(s, i + 1, j, base, acc * base + DigitValue(s[i]))

RECURSIVE CountDigits(_)
CountDigits(n) == IF n = 0 THEN 0 ELSE 1 + CountDigits(n \div 10)

\* Largest and smallest decimal exponents of a float (FLT_MAX is about
\* 3.4e38, the least subnormal about 1.4e-45).
FltMaxExp10 == 39
FltMinExp10 == 0 - 45

\* The end of digits [. digits] or . digits of the base from index i.
MantissaEnd(s, i, base) ==
    LET intEnd == DigitsEnd(s, i, base)
    IN  IF intEnd <= Len(s) /\ s[intEnd] = "." THEN DigitsEnd(s, intEnd + 1, base)
        ELSE intEnd

\* The number of digits after the dot.
FractionDigits(s, i, base) ==
    LET intEnd == DigitsEnd(s, i, base)
    IN  IF intEnd <= Len(s) /\ s[intEnd] = "." THEN DigitsEnd(s, intEnd + 1, base) - intEnd - 1
        ELSE 0

\* The first digit of an exponent whose letter is at index j.
ExponentStart(s, j) ==
    IF j + 1 <= Len(s) /\ s[j + 1] \in {"+", "-"} THEN j + 2 ELSE j + 1

\* Whether an exponent (e for base 10, p for base 16, an optional sign,
\* decimal digits) starts at index j.
HasExponent(s, j, base) ==
    /\ j <= Len(s)
    /\ s[j] \in (IF base = 10 THEN {"e", "E"} ELSE {"p", "P"})
    /\ DigitsEnd(s, ExponentStart(s, j), 10) > ExponentStart(s, j)

ExponentValue(s, j) ==
    LET mag == Mantissa(s, ExponentStart(s, j), DigitsEnd(s, ExponentStart(s, j), 10), 10, 0)
    IN  IF s[j + 1] = "-" THEN 0 - mag ELSE mag

\* The number from index i: found is false when it has no digit.
ScanFloat(s, i, base) ==
    LET j == MantissaEnd(s, i, base)
    IN  [found |-> FractionDigits(s, i, base) > 0 \/ DigitsEnd(s, i, base) > i,
         mant |-> Mantissa(s, i, j, base, 0),
         nFrac |-> FractionDigits(s, i, base),
         exp |-> IF HasExponent(s, j, base) THEN ExponentValue(s, j) ELSE 0,
         end |-> IF HasExponent(s, j, base) THEN DigitsEnd(s, ExponentStart(s, j), 10)
                 ELSE j]

\* The value mant * base^(-nFrac) * expBase^exp, an infinity when it
\* overflows a float and zero when it underflows.
FloatOf(neg, r, base) ==
    LET expBase == IF base = 10 THEN 10 ELSE 2
        order == CountDigits(r.mant) - r.nFrac + r.exp
    IN  IF r.mant = 0 THEN Finite(neg, 0, 1)
        ELSE IF base = 10 /\ order > FltMaxExp10 THEN Infinity(neg)
        ELSE IF base = 10 /\ order < FltMinExp10 THEN Finite(neg, 0, 1)
        ELSE Finite(neg,
                    r.mant * (IF r.exp > 0 THEN expBase ^ r.exp ELSE 1),
                    (base ^ r.nFrac) * (IF r.exp < 0 THEN expBase ^ (0 - r.exp) ELSE 1))

\* The index after the white space and the optional sign, and the sign.
SubjectStart(s) ==
    LET i0 == SkipSpace(s, 1)
    IN  IF i0 <= Len(s) /\ s[i0] \in {"+", "-"} THEN i0 + 1 ELSE i0

IsNegative(s) == SubjectStart(s) > 1 /\ s[SubjectStart(s) - 1] = "-"

\* nan, or nan(n-char-sequence), at index i.
NanEnd(s, i) ==
    LET k == NCharsEnd(s, i + 4)
    IN  IF i + 3 <= Len(s) /\ s[i + 3] = "(" /\ k <= Len(s) /\ s[k] = ")" THEN k + 1
        ELSE i + 3

IsHexFloat(s, i) ==
    /\ i + 1 <= Len(s)
    /\ s[i] = "0"
    /\ s[i + 1] \in {"x", "X"}
    /\ ScanFloat(s, i + 2, 16).found

strtof(s) ==
    LET i == SubjectStart(s)
    IN  IF MatchWord(s, i, <<"i", "n", "f", "i", "n", "i", "t", "y">>)
        THEN [val |-> Infinity(IsNegative(s)), end |-> i + 8]
        ELSE IF MatchWord(s, i, <<"i", "n", "f">>)
        THEN [val |-> Infinity(IsNegative(s)), end |-> i + 3]
        ELSE IF MatchWord(s, i, <<"n", "a", "n">>)
        THEN [val |-> NaN, end |-> NanEnd(s, i)]
        ELSE IF IsHexFloat(s, i)
        THEN [val |-> FloatOf(IsNegative(s), ScanFloat(s, i + 2, 16), 16),
              end |-> ScanFloat(s, i + 2, 16).end]
        ELSE IF ScanFloat(s, i, 10).found
        THEN [val |-> FloatOf(IsNegative(s), ScanFloat(s, i, 10), 10),
              end |-> ScanFloat(s, i, 10).end]
        ELSE [val |-> Finite(FALSE, 0, 1), end |-> 1]

\* parse_float_in_range without the check that strtof consumed the string.
parse_float_ignores_endptr(arg, min, max, out, hasOut) ==
    IF NullOrEmpty(arg) THEN Returns(FALSE, out)
    ELSE LET r == strtof(arg.str)
         IN  IF FLess(r.val, min) \/ FLess(max, r.val) THEN Returns(FALSE, out)
             ELSE Returns(TRUE, IF hasOut THEN r.val ELSE out)

parse_float_in_range(arg, min, max, out, hasOut) ==
    IF NullOrEmpty(arg) THEN Returns(FALSE, out)
    ELSE LET r == strtof(arg.str)
         IN  IF r.end <= Len(arg.str) THEN Returns(FALSE, out)
             ELSE IF FLess(r.val, min) \/ FLess(max, r.val) THEN Returns(FALSE, out)
             ELSE Returns(TRUE, IF hasOut THEN r.val ELSE out)

(***************************************************************************)
(* strtok and the IPv4 validators.  A buffer is a sequence of characters   *)
(* in which the terminator is NUL; a token is the index of its first       *)
(* character in the buffer, 0 for a null pointer.                          *)
(***************************************************************************)
NUL == ""

\* strcpy(ip_copy, arg): the characters and the terminator.
strcpy(s) == s \o <<NUL>>

RECURSIVE NulFrom(_, _)
NulFrom(buf, i) == IF buf[i] = NUL THEN i ELSE NulFrom(buf, i + 1)

\* The C string that starts at index i of the buffer.
CStr(buf, i) == SubSeq(buf, i, NulFrom(buf, i) - 1)

\* strspn: the first index from i that holds no delimiter.
RECURSIVE SkipDelims(_, _, _)
SkipDelims(buf, i, delim) ==
    IF buf[i] = delim THEN SkipDelims(buf, i + 1, delim) ELSE i

\* strcspn: the first index from i that holds a delimiter or the terminator.
RECURSIVE TokenEnd(_, _, _)
TokenEnd(buf, i, delim) ==
    IF buf[i] = delim \/ buf[i] = NUL THEN i ELSE TokenEnd(buf, i + 1, delim)

\* One call of strtok scanning the buffer from index from (the start of the
\* string passed, or the saved position for strtok(NULL, ...)): the token,
\* the position saved for the next call, and the buffer with the delimiter
\* that ended the token overwritten by a terminator.
strtok(buf, from, delim) ==
    LET start == SkipDelims(buf, from, delim)
        end == TokenEnd(buf, start, delim)
    IN  IF buf[start] = NUL THEN [token |-> 0, save |-> start, buf |-> buf]
        ELSE IF buf[end] = NUL THEN [token |-> start, save |-> end, buf |-> buf]
        ELSE [token |-> start, save |-> end + 1, buf |-> [buf EXCEPT ![end] = NUL]]

\* The loop body's checks of one token: all digits, and 0 <= part <= 255.
OctetOk(token) ==
    IF ~is_digits(Ptr(token)) THEN FALSE
    ELSE LET part == strtol(token, 10).val
         IN  ~(SLess(part, SInt(FALSE, <<>>)) \/ SLess(SInt(FALSE, Big(255)), part))

\* while (token != NULL) { ... } and the count check after it: the result,
\* and the position strtok is left with.
RECURSIVE TokenLoop(_, _, _, _)
TokenLoop(buf, token, save, count) ==
    IF token = 0 THEN [valid |-> count = 4, save |-> save]
    ELSE IF ~OctetOk(CStr(buf, token)) THEN [valid |-> FALSE, save |-> save]
    ELSE LET next == strtok(buf, save, ".")
         IN  TokenLoop(next.buf, next.token, next.save, count + 1)

\* The checks before the copy into ip_copy[16].
IpArgFits(arg) == ~NullOrEmpty(arg) /\ ~(Len(arg.str) > 15)

\* The tokenizing of a copied argument from its first strtok call on.
Tokenize(s) ==
    LET first == strtok(strcpy(s), 1, ".")
    IN  TokenLoop(first.buf, first.token, first.save, 0)

parse_ip_address(arg) ==
    IF ~IpArgFits(arg) THEN FALSE ELSE Tokenize(arg.str).valid

\* strchr: the index of the first c in s, 0 when there is none.
strchr(s, c) ==
    IF \E i \in 1..Len(s) : s[i] = c
    THEN CHOOSE i \in 1..Len(s) : s[i] = c /\ \A j \in 1..(i - 1) : s[j] # c
    ELSE 0

\* NetmaskOk with netmask > 33 for netmask > 32.
NetmaskOk_allows_33(netmask_part) ==
    IF netmask_part = <<>> THEN FALSE
    ELSE IF ~is_digits(Ptr(netmask_part)) THEN FALSE
    ELSE LET r == strtol(netmask_part, 10)
         IN  IF r.end <= Len(netmask_part) THEN FALSE
             ELSE ~(SLess(r.val, SInt(FALSE, <<>>)) \/ SLess(SInt(FALSE, Big(33)), r.val))

\* The checks of the netmask after the slash.
NetmaskOk(netmask_part) ==
    IF netmask_part = <<>> THEN FALSE
    ELSE IF ~is_digits(Ptr(netmask_part)) THEN FALSE
    ELSE LET r == strtol(netmask_part, 10)
         IN  IF r.end <= Len(netmask_part) THEN FALSE
             ELSE ~(SLess(r.val, SInt(FALSE, <<>>)) \/ SLess(SInt(FALSE, Big(32)), r.val))

\* The checks before the copy into ip_part[16]: a slash, and 1 to 15
\* characters before it.
MaskArgFits(arg) ==
    /\ ~NullOrEmpty(arg)
    /\ strchr(arg.str, "/") # 0
    /\ ~(strchr(arg.str, "/") - 1 = 0 \/ strchr(arg.str, "/") - 1 > 15)

ip_part(arg) == SubSeq(arg.str, 1, strchr(arg.str, "/") - 1)
netmask_part(arg) == SubSeq(arg.str, strchr(arg.str, "/") + 1, Len(arg.str))

parse_ip_address_with_netmask(arg) ==
    IF ~MaskArgFits(arg) THEN FALSE
    ELSE IF ~parse_ip_address(Ptr(ip_part(arg))) THEN FALSE
    ELSE NetmaskOk(netmask_part(arg))

(***************************************************************************)
(* parse_custom and the callbacks it is given.  A validator is a named     *)
(* behaviour; an invocation is recorded with the arguments it received.    *)
(***************************************************************************)
NoValidator == "NULL"
Validators == {"accept", "reject", "non_empty"}

\* What the callback stores through out (when out is not NULL) and returns.
Callback(validator, arg, out, hasOut) ==
    IF validator = "accept" THEN Returns(TRUE, IF hasOut THEN Len(arg.str) ELSE out)
    ELSE IF validator = "reject" THEN Returns(FALSE, out)
    ELSE Returns(arg.str # <<>>, out)

\* parse_custom with a check of its own: an empty argument fails.
parse_custom_rejects_empty(arg, validator, out, hasOut) ==
    IF NullOrEmpty(arg) \/ validator = NoValidator
    THEN [ret |-> FALSE, out |-> out, invoked |-> <<>>]
    ELSE LET r == Callback(validator, arg, out, hasOut)
         IN  [ret |-> r.ret, out |-> r.out,
              invoked |-> <<[arg |-> arg, hasOut |-> hasOut]>>]

parse_custom(arg, validator, out, hasOut) ==
    IF arg.isNull \/ validator = NoValidator
    THEN [ret |-> FALSE, out |-> out, invoked |-> <<>>]
    ELSE LET r == Callback(validator, arg, out, hasOut)
         IN  [ret |-> r.ret, out |-> r.out,
              invoked |-> <<[arg |-> arg, hasOut |-> hasOut]>>]

(***************************************************************************)
(* The state: one pending call of a public function with its inputs and    *)
(* the caller's output slot (the specification Spec), and the threads      *)
(* that run the IPv4 validators statement by statement over the C          *)
(* library's one saved strtok position (the specification SpecThreads).    *)
(***************************************************************************)
VARIABLES
    call,     \* the function called and its inputs
    out,      \* the content of the caller's output slot
    ret,      \* the value the call returned
    invoked,  \* the invocations of the validator callback, in order
    pc,       \* "ready" before the call, "returned" after it
    olds,     \* strtok's static saved position: [owner, pos]
    th        \* the threads: position, locals and buffer of each

vars == <<call, out, ret, invoked, pc, olds, th>>

(***************************************************************************)
(* The inputs the calls are drawn from.                                    *)
(***************************************************************************)
Chars == {"0", "1", "7", "a", "x", "-", ".", " "}

RECURSIVE StrsOfLen(_)
StrsOfLen(n) ==
    IF n = 0 THEN {<<>>}
    ELSE {<<c>> \o s : c \in Chars, s \in StrsOfLen(n - 1)}

GenArgs == UNION {StrsOfLen(k) : k \in 0..MaxLen}

Two31 == <<0, 2 ^ 15>>
INT_MAX_MAG == <<LimbMax, 2 ^ 15 - 1>>
Two32 == <<0, 0, 1>>
Two64 == <<0, 0, 0, 0, 1>>
HexOf123abc == <<15036, 18>>

\* Naturals at the edges of the 8, 16, 32 and 64 bit domains.
EdgeNats ==
    {Big(0), Big(1), Big(26), Big(255), Big(256), Big(65535), Big(65536),
     INT_MAX_MAG, Two31, UINT32_MAX, Two32, MulAdd(Two32, 1, 1),
     LONG_MAX_MAG, LONG_MIN_MAG, MulAdd(LONG_MIN_MAG, 1, 1),
     UINT64_MAX, Two64, MulAdd(Two64, 1, 255), MulAdd(Two64, 10, 7)}

S123abc == <<"1", "2", "3", "a", "b", "c">>

MalformedArgs ==
    {S123abc, <<"1", "2", "3", " ">>, <<"+", "5">>, <<"+">>, <<"1", "2", "+", "3">>,
     <<"0", "x", "1", "A">>, <<"1", "A">>, <<"0", "X", "f", "f">>, <<"0", "x", "g", "1">>,
     <<"0", "x">>, <<"0", "x", "0", "x", "1">>, <<"1", ".", "5">>, <<"1", "e", "2">>,
     <<"n", "a", "n">>, <<"i", "n", "f">>, <<"t", "r", "u", "e">>}

DecimalArgs ==
    GenArgs \cup MalformedArgs
        \cup {FormatDec(v) : v \in EdgeNats}
        \cup {<<"0", "0">> \o FormatDec(v) : v \in {Big(255), UINT32_MAX, Two64}}

SignedArgs ==
    DecimalArgs \cup {<<"-">> \o FormatDec(v) : v \in EdgeNats}
                \cup {<<"+">> \o FormatDec(v) : v \in {Big(255), Two31, Two64}}

HexArgs ==
    DecimalArgs
        \cup {<<"f", "f", "f", "f", "f", "f", "f", "f">>,
              <<"0", "x", "F", "F", "F", "F", "F", "F", "F", "F", "f", "f", "f", "f", "f", "f", "f", "f">>,
              <<"1", "0", "0", "0", "0", "0", "0", "0", "0", "0", "0", "0", "0", "0", "0", "0", "0">>,
              <<"0", "x", "1", "2", "3", "a", "b", "c">>, <<"1", "2", "3", "A", "B", "C">>}

FloatArgs ==
    GenArgs \cup MalformedArgs
        \cup {<<"N", "a", "N">>, <<"-", "n", "a", "n">>, <<"n", "a", "n", "(", "1", ")">>,
              <<"n", "a", "n", "(">>, <<"-", "i", "n", "f">>, <<"I", "n", "f", "i", "n", "i", "t", "y">>,
              <<"i", "n", "f", "i", "n">>, <<"1", "e", "4", "0">>, <<"-", "1", "e", "4", "0">>,
              <<"1", "e", "-", "6", "0">>, <<"1", "e">>, <<"1", "e", "+">>, <<".", "5">>,
              <<"5", ".">>, <<"-", ".", "5", "e", "1">>, <<"2", "0", "0">>, <<"2", "0", "0", ".", "5">>,
              <<"1", ".", "5", ".", "2">>, <<"0", "x", "1", "p", "-", "1">>, <<"0", ".", "5", "0">>,
              <<"2", "5", "5">>, <<"1", "2", "3", ".", "5", "a">>}

U32Bounds == {Big(0), Big(255), Big(256), UINT32_MAX}
U64Bounds == {Big(0), Big(255), Two32, UINT64_MAX}
IntBounds == {SInt(TRUE, Two31), SInt(TRUE, Big(1)), SInt(FALSE, Big(255)),
              SInt(FALSE, INT_MAX_MAG)}
HexBounds == {Big(0), Big(26), HexOf123abc, ULONG_MAX}
FloatBounds == {Finite(TRUE, 1, 1), Finite(FALSE, 0, 1), Finite(FALSE, 1, 2),
                Finite(FALSE, 200, 1), Infinity(FALSE)}

OptionLists ==
    {<<>>,
     <<<<"r", "e", "d">>, <<"g", "r", "e", "e", "n">>, <<"b", "l", "u", "e">>>>,
     <<<<"a">>, <<>>, <<"a">>, <<>>>>,
     <<<<"0">>, <<"1">>, <<"0">>>>}

OptionArgs ==
    GenArgs \cup {<<"r", "e", "d">>, <<"g", "r", "e", "e", "n">>, <<"G", "r", "e", "e", "n">>,
                  <<"b", "l", "u", "e">>, <<"b", "l", "u">>}

BoolArgs ==
    GenArgs \cup {<<"t", "r", "u", "e">>, <<"T", "R", "U", "E">>, <<"Y", "e", "s">>,
                  <<"y", "e", "s">>, <<"F", "a", "l", "s", "e">>, <<"f", "a", "l", "s", "e">>,
                  <<"n", "o">>, <<"N", "O">>, <<"m", "a", "y", "b", "e">>, <<"t", "r", "u">>,
                  <<"t", "r", "u", "e", "e">>, <<"n">>, <<"y", "e", "s", " ">>}

\* The fields a generated IPv4 argument is made of, joined by dots.
IpFields == {<<>>, <<"1">>, <<"2", "5", "5">>, <<"2", "5", "6">>, <<"1", "a">>}
MaskIpFields == {<<>>, <<"7">>, <<"2", "5", "6">>}

RECURSIVE Dotted(_, _)
Dotted(fields, n) ==
    IF n = 1 THEN fields
    ELSE {f \o <<".">> \o s : f \in fields, s \in Dotted(fields, n - 1)}

DottedUpTo(fields) == UNION {Dotted(fields, n) : n \in 1..MaxFields}

LongIpArgs ==
    {<<"1", ".", "1", ".", "1", ".", "0", "0", "0", "0", "0", "0", "0", "0", "1">>,
     <<"1", ".", "1", ".", "1", ".", "0", "0", "0", "0", "0", "0", "0", "0", "0", "1">>,
     <<"1", "9", "2", ".", "1", "6", "8", ".", "1", ".", "1">>,
     <<"1", ".", "2", ".", "3", ".", "-", "4">>,
     <<"1", ".", "2", ".", "3", ".", "4", " ">>,
     <<"1", ".", "2", ".", "3", ".", "4", "/", "2", "4">>}

IpArgs == DottedUpTo(IpFields) \cup LongIpArgs \cup GenArgs

Netmasks ==
    {<<>>, <<"/">>, <<"/", "0">>, <<"/", "2", "4">>, <<"/", "3", "2">>, <<"/", "3", "3">>,
     <<"/", "0", "0", "3", "2">>, <<"/", "2", "4", "/", "1">>, <<"/", "/", "2", "4">>,
     <<"/", "-", "1">>, <<"/", "2", "4", "a">>, <<"/">> \o FormatDec(Two64),
     <<"/">> \o FormatDec(MulAdd(Two64, 1, 7))}

MaskArgs ==
    {ip \o m : ip \in DottedUpTo(MaskIpFields) \cup LongIpArgs, m \in Netmasks} \cup GenArgs

CustomArgs == GenArgs \cup {S123abc}

Pointers(strs) == {NULL} \cup {Ptr(s) : s \in strs}

Call(fn, arg, min, max, options, validator, out0, hasOut) ==
    [fn |-> fn, arg |-> arg, min |-> min, max |-> max, options |-> options,
     validator |-> validator, out0 |-> out0, hasOut |-> hasOut]

RangeCalls(fn, strs, bounds, out0) ==
    {Call(fn, a, mn, mx, <<>>, NoValidator, out0, h) :
        a \in Pointers(strs), mn \in bounds, mx \in bounds, h \in BOOLEAN}

U32Calls == RangeCalls("parse_uint32_in_range", DecimalArgs, U32Bounds, Big(42))
U64Calls == RangeCalls("parse_uint64_in_range", DecimalArgs, U64Bounds, Big(42))
IntCalls == RangeCalls("parse_int_in_range", SignedArgs, IntBounds, SInt(FALSE, Big(42)))
HexCalls == RangeCalls("parse_hex_in_range", HexArgs, HexBounds, Big(42))
FloatCalls ==
    RangeCalls("parse_float_in_range", FloatArgs, FloatBounds, Finite(FALSE, 42, 1))
OptionCalls ==
    {Call("parse_string_option", a, <<>>, <<>>, o, NoValidator, 42, h) :
        a \in Pointers(OptionArgs), o \in OptionLists, h \in BOOLEAN}
BoolCalls ==
    {Call("parse_bool", a, <<>>, <<>>, <<>>, NoValidator, b, h) :
        a \in Pointers(BoolArgs), b \in BOOLEAN, h \in BOOLEAN}
IpCalls ==
    {Call("parse_ip_address", a, <<>>, <<>>, <<>>, NoValidator, 42, FALSE) :
        a \in Pointers(IpArgs)}
MaskCalls ==
    {Call("parse_ip_address_with_netmask", a, <<>>, <<>>, <<>>, NoValidator, 42, FALSE) :
        a \in Pointers(MaskArgs)}
CustomCalls ==
    {Call("parse_custom", a, <<>>, <<>>, <<>>, v, 42, h) :
        a \in Pointers(CustomArgs), v \in Validators \cup {NoValidator}, h \in BOOLEAN}

(***************************************************************************)
(* Spec: one call of one public function.                                  *)
(***************************************************************************)
NumThreads == 2
Threads == 1..NumThreads

NoToken == [owner |-> 0, pos |-> 0]
Idle == [fn |-> "none", arg |-> NULL, pc |-> "idle", buf |-> <<>>, token |-> NoToken,
         count |-> 0, valid |-> TRUE, ret |-> FALSE]

Init ==
    /\ \/ call \in U32Calls
       \/ call \in U64Calls
       \/ call \in IntCalls
       \/ call \in HexCalls
       \/ call \in FloatCalls
       \/ call \in OptionCalls
       \/ call \in BoolCalls
       \/ call \in IpCalls
       \/ call \in MaskCalls
       \/ call \in CustomCalls
    /\ out = call.out0
    /\ ret = FALSE
    /\ invoked = <<>>
    /\ pc = "ready"
    /\ olds = NoToken
    /\ th = [t \in Threads |-> Idle]

\* The call returns r, an output of a parser.
Return(r) ==
    /\ ret' = r.ret
    /\ out' = r.out
    /\ pc' = "returned"
    /\ UNCHANGED <<call, th>>

Call_parse_uint32_in_range ==
    /\ pc = "ready"
    /\ call.fn = "parse_uint32_in_range"
    /\ Return(parse_uint32_in_range(call.arg, call.min, call.max, out, call.hasOut))
    /\ UNCHANGED <<invoked, olds>>

Call_parse_uint64_in_range ==
    /\ pc = "ready"
    /\ call.fn = "parse_uint64_in_range"
    /\ Return(parse_uint64_in_range(call.arg, call.min, call.max, out, call.hasOut))
    /\ UNCHANGED <<invoked, olds>>

Call_parse_int_in_range ==
    /\ pc = "ready"
    /\ call.fn = "parse_int_in_range"
    /\ Return(parse_int_in_range(call.arg, call.min, call.max, out, call.hasOut))
    /\ UNCHANGED <<invoked, olds>>

Call_parse_hex_in_range ==
    /\ pc = "ready"
    /\ call.fn = "parse_hex_in_range"
    /\ Return(parse_hex_in_range(call.arg, call.min, call.max, out, call.hasOut))
    /\ UNCHANGED <<invoked, olds>>

Call_parse_float_in_range ==
    /\ pc = "ready"
    /\ call.fn = "parse_float_in_range"
    /\ Return(parse_float_in_range(call.arg, call.min, call.max, out, call.hasOut))
    /\ UNCHANGED <<invoked, olds>>

Call_parse_string_option ==
    /\ pc = "ready"
    /\ call.fn = "parse_string_option"
    /\ Return(parse_string_option(call.arg, call.options, Len(call.options), out,
                                  call.hasOut))
    /\ UNCHANGED <<invoked, olds>>

Call_parse_bool ==
    /\ pc = "ready"
    /\ call.fn = "parse_bool"
    /\ Return(parse_bool(call.arg, out, call.hasOut))
    /\ UNCHANGED <<invoked, olds>>

\* The position strtok is left with by a call that tokenizes s: it points
\* into the returned function's ip_copy (owner 0: no running thread).
SavedBy(s) == [owner |-> 0, pos |-> Tokenize(s).save]

Call_parse_ip_address ==
    /\ pc = "ready"
    /\ call.fn = "parse_ip_address"
    /\ Return(Returns(parse_ip_address(call.arg), out))
    /\ olds' = IF IpArgFits(call.arg) THEN SavedBy(call.arg.str) ELSE olds
    /\ UNCHANGED invoked

Call_parse_ip_address_with_netmask ==
    /\ pc = "ready"
    /\ call.fn = "parse_ip_address_with_netmask"
    /\ Return(Returns(parse_ip_address_with_netmask(call.arg), out))
    /\ olds' = IF MaskArgFits(call.arg) THEN SavedBy(ip_part(call.arg)) ELSE olds
    /\ UNCHANGED invoked

Call_parse_custom ==
    /\ pc = "ready"
    /\ call.fn = "parse_custom"
    /\ LET r == parse_custom(call.arg, call.validator, out, call.hasOut)
       IN  /\ Return(Returns(r.ret, r.out))
           /\ invoked' = invoked \o r.invoked
    /\ UNCHANGED olds

Next ==
    \/ Call_parse_uint32_in_range
    \/ Call_parse_uint64_in_range
    \/ Call_parse_int_in_range
    \/ Call_parse_hex_in_range
    \/ Call_parse_float_in_range
    \/ Call_parse_string_option
    \/ Call_parse_bool
    \/ Call_parse_ip_address
    \/ Call_parse_ip_address_with_netmask
    \/ Call_parse_custom

Spec == Init /\ [][Next]_vars

(***************************************************************************)
(* SpecThreads: each thread makes one call of parse_ip_address or of       *)
(* parse_ip_address_with_netmask, one statement at a time.  Every strtok   *)
(* call reads and writes the one position olds the C library keeps.  A     *)
(* thread's ip_copy is in scope from the copy until the function returns;  *)
(* reading through a pointer into a buffer that is out of scope may give   *)
(* anything.                                                               *)
(***************************************************************************)
ThreadCalls ==
    {[fn |-> "parse_ip_address", arg |-> Ptr(<<"1", ".", "2", ".", "3", ".", "4">>)],
     [fn |-> "parse_ip_address", arg |-> Ptr(<<"7", ".", "7">>)],
     [fn |-> "parse_ip_address", arg |-> Ptr(<<>>)],
     [fn |-> "parse_ip_address_with_netmask",
      arg |-> Ptr(<<"1", ".", "2", ".", "3", ".", "4", "/", "2", "4">>)],
     [fn |-> "parse_ip_address_with_netmask", arg |-> Ptr(<<"9", "/", "8">>)]}

InitThreads ==
    /\ call = Call("none", NULL, <<>>, <<>>, <<>>, NoValidator, 42, FALSE)
    /\ out = 42
    /\ ret = FALSE
    /\ invoked = <<>>
    /\ pc = "ready"
    /\ olds = NoToken
    /\ th \in [Threads -> {[Idle EXCEPT !.fn = c.fn, !.arg = c.arg] : c \in ThreadCalls}]

\* Whether thread t's ip_copy is in scope.
InScope(t) == t \in Threads /\ th[t].pc \in {"first", "loop", "next", "exit"}

\* The string a thread's parse_ip_address is called with.
AddressOf(t) ==
    IF th[t].fn = "parse_ip_address" THEN th[t].arg ELSE Ptr(ip_part(th[t].arg))

\* The checks before the copy, and the copy (lines 230-240, 271-286).
T_Enter(t) ==
    /\ th[t].pc = "idle"
    /\ th[t].fn # "none"
    /\ LET fits == IF th[t].fn = "parse_ip_address" THEN IpArgFits(th[t].arg)
                   ELSE MaskArgFits(th[t].arg) /\ IpArgFits(AddressOf(t))
       IN  th' = IF fits
                 THEN [th EXCEPT ![t].buf = strcpy(AddressOf(t).str),
                                 ![t].count = 0,
                                 ![t].valid = TRUE,
                                 ![t].pc = "first"]
                 ELSE [th EXCEPT ![t].ret = FALSE, ![t].pc = "done"]
    /\ UNCHANGED <<call, out, ret, invoked, pc, olds>>

\* token = strtok(ip_copy, ".")
T_FirstToken(t) ==
    /\ th[t].pc = "first"
    /\ LET r == strtok(th[t].buf, 1, ".")
       IN  /\ th' = [th EXCEPT ![t].buf = r.buf,
                               ![t].token = IF r.token = 0 THEN NoToken
                                            ELSE [owner |-> t, pos |-> r.token],
                               ![t].pc = "loop"]
           /\ olds' = [owner |-> t, pos |-> r.save]
    /\ UNCHANGED <<call, out, ret, invoked, pc>>

\* The loop test and the checks of the token, up to count++.
T_CheckToken(t) ==
    /\ th[t].pc = "loop"
    /\ \E ok \in (IF th[t].token = NoToken THEN {TRUE}
                  ELSE IF InScope(th[t].token.owner)
                  THEN {OctetOk(CStr(th[th[t].token.owner].buf, th[t].token.pos))}
                  ELSE BOOLEAN) :
          th' = IF th[t].token = NoToken THEN [th EXCEPT ![t].pc = "exit"]
                ELSE IF ok THEN [th EXCEPT ![t].count = @ + 1, ![t].pc = "next"]
                ELSE [th EXCEPT ![t].valid = FALSE, ![t].pc = "exit"]
    /\ UNCHANGED <<call, out, ret, invoked, pc, olds>>

\* token = strtok(NULL, "."): it goes on from olds, whichever thread's
\* buffer that points into.
T_NextToken(t) ==
    /\ th[t].pc = "next"
    /\ IF InScope(olds.owner)
       THEN LET r == strtok(th[olds.owner].buf, olds.pos, ".")
            IN  /\ th' = [[th EXCEPT ![olds.owner].buf = r.buf]
                            EXCEPT ![t].token = IF r.token = 0 THEN NoToken
                                                ELSE [owner |-> olds.owner,
                                                      pos |-> r.token],
                                   ![t].pc = "loop"]
                /\ olds' = [olds EXCEPT !.pos = r.save]
       ELSE /\ \E token \in {NoToken} \cup (IF th[t].count < MaxCount THEN {olds} ELSE {}) :
                  th' = [th EXCEPT ![t].token = token, ![t].pc = "loop"]
            /\ olds' = olds
    /\ UNCHANGED <<call, out, ret, invoked, pc>>

\* if (count != 4) valid = false; return valid; and, in
\* parse_ip_address_with_netmask, the checks of the netmask after it.
T_Return(t) ==
    /\ th[t].pc = "exit"
    /\ LET valid == th[t].valid /\ ~(th[t].count # 4)
       IN  th' = [th EXCEPT ![t].pc = "done",
                            ![t].ret = IF th[t].fn = "parse_ip_address" THEN valid
                                       ELSE IF ~valid THEN FALSE
                                       ELSE NetmaskOk(netmask_part(th[t].arg))]
    /\ UNCHANGED <<call, out, ret, invoked, pc, olds>>

NextThreads ==
    \E t \in Threads :
        \/ T_Enter(t)
        \/ T_FirstToken(t)
        \/ T_CheckToken(t)
        \/ T_NextToken(t)
        \/ T_Return(t)

SpecThreads == InitThreads /\ [][NextThreads]_vars

(***************************************************************************)
(* What the claims are stated with.                                        *)
(***************************************************************************)
Returned == pc = "returned"

\* The natural a string of decimal digits denotes.
DecValue(s) == Horner(s, 1, Len(s) + 1, 10, <<>>)

AllDecimal(s) ==
    \A i \in 1..Len(s) : s[i] \in {"0", "1", "2", "3", "4", "5", "6", "7", "8", "9"}

\* The fields of s between the separators, empty ones included.
RECURSIVE Split(_, _)
Split(s, sep) ==
    IF strchr(s, sep) = 0 THEN <<s>>
    ELSE <<SubSeq(s, 1, strchr(s, sep) - 1)>>
            \o Split(SubSeq(s, strchr(s, sep) + 1, Len(s)), sep)

RangeParsers ==
    {"parse_uint32_in_range", "parse_uint64_in_range", "parse_int_in_range",
     "parse_hex_in_range", "parse_float_in_range"}
SlotParsers == RangeParsers \cup {"parse_bool", "parse_string_option"}

\* C1: when a parser with an output slot returns false, the slot holds what
\* it held before the call.
C1_FailureLeavesSlot ==
    (Returned /\ call.fn \in SlotParsers /\ ~ret) => out = call.out0

\* A value converted in full and rejected by the range alone.
C1_Witness ==
    /\ Returned
    /\ call.fn = "parse_uint32_in_range"
    /\ call.arg = Ptr(<<"2", "5", "6">>)
    /\ call.min = Big(0)
    /\ call.max = Big(255)
    /\ call.hasOut
    /\ ~ret
    /\ out = call.out0

\* C2: parse_uint32_in_range returns true exactly for a non-empty string of
\* decimal digits whose value v fits 32 bits and lies in [min, max], and then
\* stores v; the decimal rendering of every such v parses back to v.
C2_Uint32Exact ==
    (Returned /\ call.fn = "parse_uint32_in_range") =>
        LET s == call.arg.str
            wellFormed == ~call.arg.isNull /\ s # <<>> /\ AllDecimal(s)
            v == DecValue(s)
        IN  /\ ret = (/\ wellFormed
                      /\ BigLeq(v, UINT32_MAX)
                      /\ BigLeq(call.min, v)
                      /\ BigLeq(v, call.max))
            /\ (ret /\ call.hasOut) => out = v
            /\ \A n \in EdgeNats :
                  (/\ call.arg = Ptr(FormatDec(n))
                   /\ BigLeq(n, UINT32_MAX)
                   /\ BigLeq(call.min, n)
                   /\ BigLeq(n, call.max)) => (ret /\ (call.hasOut => out = n))

C2_Witness ==
    /\ Returned
    /\ call.fn = "parse_uint32_in_range"
    /\ call.arg = Ptr(FormatDec(UINT32_MAX))
    /\ call.max = UINT32_MAX
    /\ ret
    /\ out = UINT32_MAX

\* C3: whenever parse_uint64_in_range returns true, the value v of the digit
\* string fits 64 bits, lies in [min, max] and is what was stored.
C3_Uint64Exact ==
    (Returned /\ call.fn = "parse_uint64_in_range" /\ ret) =>
        LET v == DecValue(call.arg.str)
        IN  /\ BigLeq(v, UINT64_MAX)
            /\ BigLeq(call.min, v)
            /\ BigLeq(v, call.max)
            /\ call.hasOut => out = v

\* C4 as stated: "123abc" makes every numeric parser return false.
C4_AllRejectTrailingLetters ==
    (Returned /\ call.fn \in RangeParsers /\ call.arg = Ptr(S123abc)) => ~ret

\* C4, amended: "123abc" makes the decimal parsers and the float parser
\* return false; parse_hex_in_range reads it as the number 0x123abc, returns
\* true exactly when that lies in [min, max], and then stores it.
C4_DecimalRejectHexReads ==
    (Returned /\ call.fn \in RangeParsers /\ call.arg = Ptr(S123abc)) =>
        IF call.fn = "parse_hex_in_range"
        THEN /\ ret = (BigLeq(call.min, HexOf123abc) /\ BigLeq(HexOf123abc, call.max))
             /\ (ret /\ call.hasOut) => out = HexOf123abc
        ELSE ~ret

\* The float parser rejects "123abc" though 123 lies in the range.
C4_Witness ==
    /\ Returned
    /\ call.fn = "parse_float_in_range"
    /\ call.arg = Ptr(S123abc)
    /\ call.min = Finite(FALSE, 0, 1)
    /\ call.max = Finite(FALSE, 200, 1)
    /\ ~ret

\* C5: parse_ip_address returns true exactly when the argument has at most
\* 15 characters and splits on every dot into exactly 4 fields, each
\* non-empty, all digits and of a value in [0, 255].
C5_Ipv4Exact ==
    (Returned /\ call.fn = "parse_ip_address") =>
        ret = (/\ ~call.arg.isNull
               /\ Len(call.arg.str) <= 15
               /\ Len(Split(call.arg.str, ".")) = 4
               /\ \A i \in 1..4 :
                     LET f == Split(call.arg.str, ".")[i]
                     IN  f # <<>> /\ AllDecimal(f) /\ BigLeq(DecValue(f), Big(255)))

\* C6: parse_ip_address_with_netmask returns true exactly when the argument
\* holds one slash, the 1 to 15 characters before it are accepted by
\* parse_ip_address, and what follows it is non-empty, all digits and of a
\* value in [0, 32].
C6_NetmaskExact ==
    (Returned /\ call.fn = "parse_ip_address_with_netmask") =>
        ret = (/\ ~call.arg.isNull
               /\ Len(Split(call.arg.str, "/")) = 2
               /\ LET before == Split(call.arg.str, "/")[1]
                      after == Split(call.arg.str, "/")[2]
                  IN  /\ Len(before) \in 1..15
                      /\ parse_ip_address(Ptr(before))
                      /\ after # <<>>
                      /\ AllDecimal(after)
                      /\ BigLeq(DecValue(after), Big(32)))

\* A netmask of 2^64 + 7 after a valid address: rejected.
C6_Witness ==
    /\ Returned
    /\ call.fn = "parse_ip_address_with_netmask"
    /\ call.arg = Ptr(<<"7", ".", "7", ".", "7", ".", "7", "/">>
                        \o FormatDec(MulAdd(Two64, 1, 7)))
    /\ ~ret

\* The result of a thread's call when it runs alone.
RunAlone(t) ==
    IF th[t].fn = "parse_ip_address" THEN parse_ip_address(th[t].arg)
    ELSE parse_ip_address_with_netmask(th[t].arg)

\* C7: under every interleaving, each thread's call of an IPv4 validator
\* returns what it returns when run alone.
C7_ThreadsAgreeWithAlone ==
    \A t \in Threads : th[t].pc = "done" => th[t].ret = RunAlone(t)

AllFunctions ==
    SlotParsers \cup {"parse_ip_address", "parse_ip_address_with_netmask", "parse_custom"}

\* C8 as stated: every public function returns false for a null or an empty
\* argument.
C8_AbsentOrEmptyFails ==
    (Returned /\ call.fn \in AllFunctions /\ NullOrEmpty(call.arg)) => ~ret

\* C8, amended: every public function returns false for a null argument;
\* for an empty one the numeric parsers, the IPv4 validators and parse_bool
\* return false, parse_string_option returns true exactly when the option
\* list holds the empty string (storing its first index), and parse_custom
\* returns what the callback returns.
C8_AbsentFailsEmptyByFunction ==
    (Returned /\ call.fn \in AllFunctions) =>
        /\ call.arg.isNull => ~ret
        /\ call.arg = Ptr(<<>>) =>
              IF call.fn = "parse_string_option"
              THEN /\ ret = (\E i \in 1..Len(call.options) : call.options[i] = <<>>)
                   /\ (ret /\ call.hasOut) =>
                         /\ call.options[out + 1] = <<>>
                         /\ \A j \in 1..out : call.options[j] # <<>>
              ELSE IF call.fn = "parse_custom"
              THEN IF call.validator = NoValidator THEN ~ret
                   ELSE ret = Callback(call.validator, call.arg, call.out0, call.hasOut).ret
              ELSE ~ret

\* The empty argument matched against a list that holds the empty string.
C8_Witness ==
    /\ Returned
    /\ call.fn = "parse_string_option"
    /\ call.arg = Ptr(<<>>)
    /\ call.options = <<<<"a">>, <<>>, <<"a">>, <<>>>>
    /\ call.hasOut
    /\ ret
    /\ out = 1

\* C9: parse_custom with a null argument or a null validator returns false
\* and invokes nothing; otherwise it invokes the callback once, with its own
\* arg and out, and returns what the callback returned.
C9_CustomDelegates ==
    (Returned /\ call.fn = "parse_custom") =>
        IF call.arg.isNull \/ call.validator = NoValidator
        THEN ~ret /\ invoked = <<>> /\ out = call.out0
        ELSE /\ invoked = <<[arg |-> call.arg, hasOut |-> call.hasOut]>>
             /\ ret = Callback(call.validator, call.arg, call.out0, call.hasOut).ret
             /\ out = Callback(call.validator, call.arg, call.out0, call.hasOut).out

\* An empty argument handed to a callback that accepts it.
C9_Witness ==
    /\ Returned
    /\ call.fn = "parse_custom"
    /\ call.arg = Ptr(<<>>)
    /\ call.validator = "accept"
    /\ Len(invoked) = 1
    /\ ret

\* Whether the caller's range is inverted, in the parser's own domain.
Inverted ==
    IF call.fn = "parse_float_in_range" THEN FLess(call.max, call.min)
    ELSE IF call.fn = "parse_int_in_range" THEN SLess(call.max, call.min)
    ELSE BigLess(call.max, call.min)

\* C10: with min > max a range-checked parser returns false for every
\* argument.
C10_InvertedRangeFails ==
    (Returned /\ call.fn \in RangeParsers /\ Inverted) => ~ret

====
